---- MODULE Spec2Model ----
(***************************************************************************)
(* Manthan event-management backend: the registration / check-in /        *)
(* feedback / certificate lifecycle, modelled from the route handlers and  *)
(* the mongoose models.  The database is the state; every route handler is *)
(* an operator from (database, request) to (response message, database),   *)
(* and an action applies it.                                               *)
(***************************************************************************)
EXTENDS Integers, Sequences, FiniteSets, TLC

\* ------------------------------------------------------------------ bounds
\* The clock (Date.now()) runs over 0..MaxTime.
MaxTime == 3
\* Largest maxParticipants an event of the initial database is given.
MaxCapacity == 2
\* Largest teamSize.max an event of the initial database is given.
MaxTeamSize == 2
\* The random parts of certificate ids and verification codes are drawn from
\* 1..MaxRandom.
MaxRandom == 2
\* Downloads and shares of one certificate are recorded up to MaxRecords.
MaxRecords == 1

\* ------------------------------------------------------ javascript values
\* A Number field that was never set reads as undefined; arithmetic on
\* undefined yields NaN.  Every relational comparison with either is false.
Undefined == -1
NaN == -2

IsNumber(x) == x >= 0
JsLt(a, b) == IsNumber(a) /\ IsNumber(b) /\ a < b
JsGe(a, b) == IsNumber(a) /\ IsNumber(b) /\ a >= b
JsGt(a, b) == IsNumber(a) /\ IsNumber(b) /\ a > b
JsAdd(a, b) == IF IsNumber(a) /\ IsNumber(b) THEN a + b ELSE NaN
JsSub(a, b) == IF IsNumber(a) /\ IsNumber(b) THEN a - b ELSE NaN

\* ------------------------------------------------------------------ users
Users == {"ann", "cy", "dee"}
Role(u) == CASE u = "dee" -> "admin"
             [] u = "cy" -> "organizer"
             [] OTHER -> "student"

EventIds == {"e1"}

VARIABLES
    now,        \* Date.now() / new Date()
    events,     \* Event collection: event id -> document
    regs,       \* Registration collection, in creation order (index = _id)
    points,     \* User.points
    badges,     \* User.badges: the badge names each user holds, in order
    certs,      \* Certificate collection, in creation order
    inflight,   \* requests suspended at an await: slot -> request
    userAttempts,   \* req.app.locals.userAttempts: user -> {count, firstAttempt}
    notifications   \* Notification collection, in creation order

vars == <<now, events, regs, points, badges, certs, inflight,
          userAttempts, notifications>>

\* The database a request handler reads and writes.
DB == [events |-> events, regs |-> regs, points |-> points,
       badges |-> badges, certs |-> certs]

RegIds(db) == 1..Len(db.regs)

\* ------------------------------------------------------------ Event model
\* eventSchema.virtual('isRegistrationOpen')
IsRegistrationOpen(ev, t) ==
    /\ t <= ev.registrationDeadline
    /\ ev.status = "approved"
    /\ JsLt(ev.currentParticipants, ev.maxParticipants)

\* eventSchema.methods.addParticipant: [ok, ev]; ok = FALSE is the throw of
\* Error('Event is full').
AddParticipant(ev) ==
    IF JsLt(ev.currentParticipants, ev.maxParticipants)
    THEN [ok |-> TRUE,
          ev |-> [ev EXCEPT !.currentParticipants = ev.currentParticipants + 1]]
    ELSE [ok |-> FALSE, ev |-> ev]

\* A decrement without the test for 0.
RemoveParticipantNoFloor(ev) ==
    [ev EXCEPT !.currentParticipants = ev.currentParticipants - 1]

\* eventSchema.methods.removeParticipant
RemoveParticipant(ev) ==
    IF ev.currentParticipants > 0
    THEN [ev EXCEPT !.currentParticipants = ev.currentParticipants - 1]
    ELSE ev

\* ------------------------------------------------------------- User model
\* userSchema.methods.addPoints
AddPoints(pts, u, n) == [pts EXCEPT ![u] = pts[u] + n]

\* A push without the look-up for a badge of the same name.
AddBadgeAlways(bs, u, name) == [bs EXCEPT ![u] = Append(@, name)]

\* userSchema.methods.addBadge: pushed only when no held badge has the name.
AddBadge(bs, u, name) ==
    IF \E i \in 1..Len(bs[u]) : bs[u][i] = name THEN bs
    ELSE [bs EXCEPT ![u] = Append(@, name)]

\* ----------------------------------------------------- Registration model
NoCode == <<>>
\* `TEAM-${Date.now().toString(36).toUpperCase()}`: the clock value in base
\* 36 behind a fixed prefix, one code per clock value.
TeamCodeOf(t) == <<"TEAM", t>>
\* The attendance sub-document of a document created without one: the
\* schema gives sessions [] and attendancePercentage 0, and no default for
\* totalSessions and attendedSessions.
\* A percentage is kept exactly, as numerator over denominator.
Ratio(n, d) == [n |-> n, d |-> d]

FreshAttendance ==
    [sessions |-> <<>>, totalSessions |-> Undefined,
     attendedSessions |-> Undefined, attendancePercentage |-> Ratio(0, 1)]

\* A document as Registration.create stores it from the route's data.
\* teamInfo.teamName of the request body in the modelled requests.
BodyTeamName == "team"
\* No teamInfo.teamName stored.
NoTeamName == "none"

NewRegistration(u, e, isLead, code, maxMembers) ==
    [user |-> u, event |-> e, status |-> "confirmed",
     isTeamLead |-> isLead, teamCode |-> code, maxMembers |-> maxMembers,
     teamName |-> IF isLead THEN BodyTeamName ELSE NoTeamName,
     teamMembers |-> <<>>,
     isCheckedIn |-> FALSE,
     feedbackRating |-> Undefined, feedbackSubmittedAt |-> Undefined,
     certEligible |-> FALSE, certificateId |-> NoCode, hasQr |-> FALSE,
     attendance |-> FreshAttendance]

\* A lookup that would pass over cancelled registrations.
FindRegistrationLive(db, u, e) ==
    LET hits == {i \in RegIds(db) :
                    /\ db.regs[i].user = u /\ db.regs[i].event = e
                    /\ db.regs[i].status # "cancelled"}
    IN IF hits = {} THEN 0 ELSE CHOOSE i \in hits : \A j \in hits : i <= j

\* Registration.findOne({user, event}): the first match, 0 when none.
FindRegistration(db, u, e) ==
    LET hits == {i \in RegIds(db) :
                    db.regs[i].user = u /\ db.regs[i].event = e}
    IN IF hits = {} THEN 0 ELSE CHOOSE i \in hits : \A j \in hits : i <= j

\* A collection without the unique index.
UniqueIndexAbsent(db, u, e) == TRUE

\* The unique index {user: 1, event: 1}: Registration.create of a second
\* document for the pair fails with a duplicate-key error.
UniqueIndexAllows(db, u, e) == FindRegistration(db, u, e) = 0

\* ------------------------------------------------------------------- Init
\* An approved event of organizer cy as POST /api/events stores it:
\* maxParticipants m (Undefined when the body gives none), team event with
\* teamSize.max k when k > 0 (teamSize.max defaults to 1), co-organizers co.
\* The dates satisfy the schema's pre-save check, deadline <= start < end.
EventConfig(m, k, co) ==
    [status |-> "approved", organizer |-> "cy", coOrganizers |-> co,
     registrationDeadline |-> 1, startDate |-> 2, endDate |-> 3,
     maxParticipants |-> m, currentParticipants |-> 0,
     isTeamEvent |-> k > 0, teamSizeMin |-> 1,
     teamSizeMax |-> IF k > 0 THEN k ELSE 1]

EventConfigs ==
    {EventConfig(m, k, {}) :
        m \in {Undefined} \cup (1..MaxCapacity), k \in 0..MaxTeamSize}

\* Requests being served at once, and a slot serving none.
Slots == {"r1", "r2"}
NoRequest ==
    [pc |-> "idle", kind |-> "none", user |-> "none", event |-> "none",
     teamInfo |-> FALSE, code |-> NoCode, count |-> 0, pts |-> 0,
     lead |-> 0, leadLen |-> 0, reg |-> 0]

\* ----------------------------------------------------------- rate limiter
\* 15 * 60 * 1000 ms
WindowMs == 900000
MaxAttempts == 5

\* userAttempts[userId] of a user who has no entry.
NoAttempts == [count |-> 0, firstAttempt |-> 0]

\* A window that would already be over at exactly 15 minutes.
WindowElapsedAtEdge(timePassed) == timePassed >= WindowMs

\* timePassed > windowMs
WindowElapsed(timePassed) == timePassed > WindowMs

\* sensitiveOperationLimit for user u at clock t on the store attempts:
\* [passed, store]; passed = FALSE is the 429 answer without next().
SensitiveOperationLimit(attempts, u, t) ==
    IF attempts[u] = NoAttempts \/ WindowElapsed(t - attempts[u].firstAttempt)
    THEN [passed |-> TRUE,
          store |-> [attempts EXCEPT
                        ![u] = [count |-> 1, firstAttempt |-> t]]]
    ELSE [passed |-> attempts[u].count + 1 <= MaxAttempts,
          store |-> [attempts EXCEPT ![u].count = @ + 1]]

InitDB ==
    /\ userAttempts = [u \in Users |-> NoAttempts]
    /\ notifications = <<>>
    /\ now = 0
    /\ regs = <<>>
    /\ points = [u \in Users |-> 0]
    /\ badges = [u \in Users |-> <<>>]
    /\ certs = <<>>
    /\ inflight = [s \in Slots |-> NoRequest]

Init ==
    /\ InitDB
    /\ events \in [EventIds -> EventConfigs]

Reply(m, db) == [msg |-> m, db |-> db]

\* A handler without the try/catch: a failed generation ends the request.
QrFailurePropagates(qrOk) == ~qrOk

\* try { generateEventQR ...; registration.save() } catch (qrError)
\* { console.error(...) }: whether a failed generation leaves the handler.
QrFailureEscapes(qrOk) == FALSE

\* router.post('/') of the registrations router.  teamInfo: whether the
\* body carries teamInfo; qrOk: whether generateEventQR succeeds.
PostRegistration(db, t, u, e, teamInfo, qrOk) ==
    IF e \notin DOMAIN db.events THEN Reply("Event not found", db)
    ELSE LET ev == db.events[e] IN
    IF ev.status # "approved"
        THEN Reply("Event is not available for registration", db)
    ELSE IF ~IsRegistrationOpen(ev, t)
        THEN Reply("Registration for this event is closed", db)
    ELSE IF FindRegistration(db, u, e) # 0
        THEN Reply("You are already registered for this event", db)
    ELSE IF JsGe(ev.currentParticipants, ev.maxParticipants)
        THEN Reply("Event is full", db)
    ELSE
        LET lead == ev.isTeamEvent /\ teamInfo
            reg0 == NewRegistration(u, e, lead,
                        IF lead THEN TeamCodeOf(t) ELSE NoCode,
                        IF lead THEN ev.teamSizeMax ELSE Undefined)
            reg  == [reg0 EXCEPT !.hasQr = qrOk]
            added == AddParticipant(ev)
        IN IF ~UniqueIndexAllows(db, u, e)
           THEN Reply("Error: duplicate key", db)
           ELSE IF QrFailureEscapes(qrOk)
           THEN Reply("Error: Failed to generate QR code",
                      [db EXCEPT !.regs = Append(db.regs, reg)])
           ELSE IF ~added.ok
           THEN Reply("Error: Event is full",
                      [db EXCEPT !.regs = Append(db.regs, reg)])
           ELSE Reply("Successfully registered for the event",
                      [db EXCEPT !.regs = Append(db.regs, reg),
                                 !.events[e] = added.ev,
                                 !.points = AddPoints(db.points, u, 10)])

\* registrationSchema.methods.addTeamMember on the lead's document: [ok, reg];
\* ok = FALSE is the throw of Error('Team is full').
AddTeamMember(reg, u) ==
    IF JsGe(Len(reg.teamMembers), JsSub(reg.maxMembers, 1))
    THEN [ok |-> FALSE, reg |-> reg]
    ELSE [ok |-> TRUE, reg |-> [reg EXCEPT !.teamMembers = Append(@, u)]]

\* Registration.findOne({'teamInfo.teamCode', event, 'teamInfo.isTeamLead':
\* true}): the first match, 0 when none.
FindTeamLead(db, code, e) ==
    LET hits == {i \in RegIds(db) :
                    /\ db.regs[i].teamCode = code
                    /\ db.regs[i].event = e
                    /\ db.regs[i].isTeamLead}
    IN IF hits = {} THEN 0 ELSE CHOOSE i \in hits : \A j \in hits : i <= j

\* The route's own team-full test: lead + recorded members >= maxMembers.
TeamIsFull(lead) == JsGe(Len(lead.teamMembers) + 1, lead.maxMembers)

\* router.post('/join-team')
PostJoinTeam(db, t, u, code, e) ==
    LET l == FindTeamLead(db, code, e) IN
    IF l = 0 THEN Reply("Team not found or invalid team code", db)
    ELSE IF FindRegistration(db, u, e) # 0
        THEN Reply("You are already registered for this event", db)
    ELSE IF TeamIsFull(db.regs[l])
        THEN Reply("Team is already full", db)
    ELSE IF e \notin DOMAIN db.events
        THEN Reply("Error: TypeError", db)
    ELSE IF ~UniqueIndexAllows(db, u, e)
        THEN Reply("Error: duplicate key", db)
    ELSE
        LET member == [NewRegistration(u, e, FALSE, code, Undefined)
                          EXCEPT !.teamName = db.regs[l].teamName]
            db1 == [db EXCEPT !.regs = Append(db.regs, member)]
            joined == AddTeamMember(db.regs[l], u)
            db2 == [db1 EXCEPT !.regs[l] = joined.reg]
            added == AddParticipant(db.events[e])
        IN IF ~joined.ok THEN Reply("Error: Team is full", db1)
           ELSE IF ~added.ok THEN Reply("Error: Event is full", db2)
           ELSE Reply("Successfully joined the team",
                      [db2 EXCEPT !.events[e] = added.ev,
                                  !.points = AddPoints(db.points, u, 10)])

\* The cancel route's authorization test.
MayCancel(db, actor, id) ==
    db.regs[id].user = actor \/ Role(actor) = "admin"

\* The cancel route's time test: new Date() >= registration.event.startDate.
EventHasStarted(ev, t) == t >= ev.startDate

\* router.delete('/:id') of the registrations router
DeleteRegistration(db, t, actor, id) ==
    IF id \notin RegIds(db) THEN Reply("Registration not found", db)
    ELSE LET reg == db.regs[id] IN
    IF ~MayCancel(db, actor, id)
        THEN Reply("Not authorized to cancel this registration", db)
    ELSE IF reg.event \notin DOMAIN db.events
        THEN Reply("Error: TypeError", db)
    ELSE IF EventHasStarted(db.events[reg.event], t)
        THEN Reply("Cannot cancel registration after event has started", db)
    ELSE Reply("Registration cancelled successfully",
               [db EXCEPT !.regs[id].status = "cancelled",
                          !.events[reg.event] =
                              RemoveParticipant(db.events[reg.event])])

\* ------------------------------------------------------------ QR payloads
\* 24 * 60 * 60 * 1000 ms
QrMaxAge == 86400000

NoQr == [json |-> FALSE, type |-> "absent", registrationId |-> 0,
         eventId |-> "none", timestamp |-> 0]

\* parseQRData: JSON.parse of the string, and on failure {url: string};
\* success is true either way.  A non-JSON string yields data without type,
\* registrationId, eventId or timestamp.
ParseQRData(qr) ==
    [success |-> TRUE,
     data |-> IF qr.json THEN qr
              ELSE [json |-> FALSE, type |-> "undefined",
                    registrationId |-> 0, eventId |-> "undefined",
                    timestamp |-> Undefined]]

\* validateCheckInQR(qrData, expectedEventId) at clock t.  For a payload
\* without timestamp, age = Date.now() - undefined is NaN and age > maxAge
\* is false, so the expiry branch is not taken.
ValidateCheckInQR(data, e, t) ==
    IF data.type # "event-checkin"
        THEN [valid |-> FALSE, message |-> "Invalid QR code type for check-in",
              registrationId |-> 0]
    ELSE IF data.eventId # e
        THEN [valid |-> FALSE, message |-> "QR code is for a different event",
              registrationId |-> 0]
    ELSE IF data.timestamp # Undefined /\ t - data.timestamp > QrMaxAge
        THEN [valid |-> FALSE, message |-> "QR code has expired",
              registrationId |-> 0]
    ELSE [valid |-> TRUE, message |-> "", registrationId |-> data.registrationId]

\* The check-in route's authorization test.
MayCheckIn(ev, actor) ==
    \/ ev.organizer = actor
    \/ actor \in ev.coOrganizers
    \/ Role(actor) = "admin"

\* A check-in that would leave isCheckedIn unset.
RegCheckInNoFlag(reg) == [reg EXCEPT !.status = "checked-in"]

\* registrationSchema.methods.checkIn (the time, method, location and actor
\* it also records are not part of the model's document)
RegCheckIn(reg) == [reg EXCEPT !.isCheckedIn = TRUE, !.status = "checked-in"]

\* router.post('/:id/checkin'); qr = NoQr when the body has no qrData.
PostCheckIn(db, t, actor, id, method, qr) ==
    IF id \notin RegIds(db) THEN Reply("Registration not found", db)
    ELSE LET reg == db.regs[id] IN
    IF reg.event \notin DOMAIN db.events THEN Reply("Error: TypeError", db)
    ELSE LET ev == db.events[reg.event]
             v == ValidateCheckInQR(ParseQRData(qr).data, reg.event, t) IN
    IF ~MayCheckIn(ev, actor)
        THEN Reply("Not authorized to check-in users for this event", db)
    ELSE IF reg.isCheckedIn
        THEN Reply("User is already checked in", db)
    ELSE IF method = "qr-code" /\ qr # NoQr /\ ~ParseQRData(qr).success
        THEN Reply("Invalid QR code format", db)
    ELSE IF method = "qr-code" /\ qr # NoQr /\ ~v.valid
        THEN Reply(v.message, db)
    ELSE IF method = "qr-code" /\ qr # NoQr /\ v.registrationId # id
        THEN Reply("QR code does not match this registration", db)
    ELSE Reply("User checked in successfully",
               [db EXCEPT !.regs[id] = RegCheckIn(reg),
                          !.points = AddPoints(db.points, reg.user, 20)])

\* The feedback route's time test: new Date() < registration.event.endDate.
EventNotEnded(ev, t) == t < ev.endDate

\* A route without the once-only test.
FeedbackSubmittedNever(reg) == FALSE

\* The feedback route's once-only test: registration.feedback?.submittedAt.
FeedbackSubmitted(reg) == reg.feedbackSubmittedAt # Undefined

\* registrationSchema.methods.submitFeedback
RegSubmitFeedback(reg, rating, t) ==
    [reg EXCEPT !.feedbackRating = rating, !.feedbackSubmittedAt = t]

\* router.post('/:id/feedback')
PostFeedback(db, t, actor, id, rating) ==
    IF id \notin RegIds(db) THEN Reply("Registration not found", db)
    ELSE LET reg == db.regs[id] IN
    IF reg.user # actor
        THEN Reply("Not authorized to submit feedback for this registration", db)
    ELSE IF reg.event \notin DOMAIN db.events THEN Reply("Error: TypeError", db)
    ELSE IF EventNotEnded(db.events[reg.event], t)
        THEN Reply("Cannot submit feedback before event completion", db)
    ELSE IF FeedbackSubmitted(reg)
        THEN Reply("Feedback has already been submitted", db)
    ELSE Reply("Feedback submitted successfully",
               [db EXCEPT !.regs[id] = RegSubmitFeedback(reg, rating, t),
                          !.points = AddPoints(db.points, actor, 5)])

Commit(r) ==
    /\ events' = r.db.events
    /\ regs' = r.db.regs
    /\ points' = r.db.points
    /\ badges' = r.db.badges
    /\ certs' = r.db.certs
    /\ inflight' = inflight
    /\ UNCHANGED <<userAttempts, notifications>>

Tick ==
    /\ now < MaxTime
    /\ now' = now + 1
    /\ UNCHANGED <<events, regs, points, badges, certs, inflight,
                   userAttempts, notifications>>

CreateRegistration ==
    \E u \in Users, e \in EventIds \cup DOMAIN events,
       teamInfo \in BOOLEAN, qrOk \in BOOLEAN :
        /\ Commit(PostRegistration(DB, now, u, e, teamInfo, qrOk))
        /\ UNCHANGED now

\* The team codes a client can have been told, plus one nobody was given.
KnownCodes(db) == {db.regs[i].teamCode : i \in RegIds(db)} \ {NoCode}

JoinTeam ==
    \E u \in Users, code \in KnownCodes(DB) \cup {TeamCodeOf(now)},
       e \in EventIds :
        /\ Commit(PostJoinTeam(DB, now, u, code, e))
        /\ UNCHANGED now

CancelRegistration ==
    \E actor \in Users, id \in 1..(Len(regs) + 1) :
        /\ Commit(DeleteRegistration(DB, now, actor, id))
        /\ UNCHANGED now

Next == Tick \/ CreateRegistration \/ JoinTeam \/ CancelRegistration

\* ------------------------------------------------ check-in and feedback
CheckInMethods == {"manual", "qr-code"}

\* The payloads a client presents for registration id of event e at clock t:
\* none, a string that is not JSON, the payload generateEventQR issued, and
\* that payload with one field changed.
IssuedQr(id, e, t) ==
    [json |-> TRUE, type |-> "event-checkin", registrationId |-> id,
     eventId |-> e, timestamp |-> t]
QrInputs(id, e, t) ==
    {NoQr, [NoQr EXCEPT !.type = "url"], IssuedQr(id, e, t),
     [IssuedQr(id, e, t) EXCEPT !.type = "team-join"],
     [IssuedQr(id, e, t) EXCEPT !.registrationId = id + 1],
     [IssuedQr(id, e, t) EXCEPT !.eventId = "e2"],
     [IssuedQr(id, e, t) EXCEPT !.timestamp = t - QrMaxAge - 1],
     [IssuedQr(id, e, t) EXCEPT !.timestamp = Undefined]}

CheckIn ==
    \E actor \in Users, id \in 1..(Len(regs) + 1), method \in CheckInMethods :
        \E qr \in IF method = "qr-code" THEN QrInputs(id, "e1", now)
                   ELSE {NoQr} :
            /\ Commit(PostCheckIn(DB, now, actor, id, method, qr))
            /\ UNCHANGED now

Ratings == {1, 5}

SubmitFeedback ==
    \E actor \in Users, id \in 1..(Len(regs) + 1), rating \in Ratings :
        /\ Commit(PostFeedback(DB, now, actor, id, rating))
        /\ UNCHANGED now

InitLife ==
    /\ InitDB
    /\ events \in [EventIds ->
            {EventConfig(m, 0, co) : m \in 1..MaxCapacity, co \in {{}, {"ann"}}}]

NextLife == Tick \/ CreateRegistration \/ CheckIn \/ SubmitFeedback

SpecLife == InitLife /\ [][NextLife]_vars

Spec == Init /\ [][Next]_vars

\* ------------------------------------------------------------ certificates
CertTypes == {"participation", "winner", "completion", "achievement",
              "appreciation"}

\* pointsMap of the generate route
PointsFor(type) ==
    CASE type = "participation" -> 25
      [] type = "winner" -> 100
      [] type = "completion" -> 50
      [] type = "achievement" -> 75
      [] type = "appreciation" -> 30

CertIds(db) == 1..Len(db.certs)

\* Certificate.findOne({user, event, type})
FindCertificate(db, u, e, type) ==
    \E i \in CertIds(db) :
        /\ db.certs[i].user = u
        /\ db.certs[i].event = e
        /\ db.certs[i].type = type

\* The unique indexes on certificateId and verification.verificationCode.
CertUniqueIndexesAllow(db, certId, code) ==
    \A i \in CertIds(db) :
        db.certs[i].certificateId # certId /\ db.certs[i].verificationCode # code

\* The generate route's authorization test.
MayGenerate(ev, actor) == ev.organizer = actor \/ Role(actor) = "admin"

\* router.post('/generate').  rnd, code: the random draws of
\* generateCertificateId and generateVerificationCode; pdfOk: whether
\* rendering and saving the document succeed.
PostGenerate(db, t, actor, id, type, rnd, code, pdfOk) ==
    IF id \notin RegIds(db) THEN Reply("Registration not found", db)
    ELSE LET reg == db.regs[id] IN
    IF reg.event \notin DOMAIN db.events THEN Reply("Error: TypeError", db)
    ELSE LET ev == db.events[reg.event]
             certId == <<"CERT", t, rnd>>
             cert == [user |-> reg.user, event |-> reg.event,
                      registration |-> id, certificateId |-> certId,
                      type |-> type, verificationCode |-> code,
                      status |-> "active", revokedAt |-> Undefined,
                      revokedBy |-> "none", revokedReason |-> "none",
                      downloads |-> 0, shareCount |-> 0] IN
    IF ~MayGenerate(ev, actor)
        THEN Reply("Not authorized to generate certificates for this event", db)
    ELSE IF FindCertificate(db, reg.user, reg.event, type)
        THEN Reply("Certificate already exists for this user and event", db)
    ELSE IF ~pdfOk THEN Reply("Error: Failed to generate certificate", db)
    ELSE IF ~CertUniqueIndexesAllow(db, certId, code)
        THEN Reply("Error: duplicate key", db)
    ELSE Reply("Certificate generated successfully",
               [db EXCEPT !.certs = Append(db.certs, cert),
                          !.regs[id].certEligible = TRUE,
                          !.regs[id].certificateId = certId,
                          !.points = AddPoints(db.points, reg.user,
                                               PointsFor(type)),
                          !.badges = IF type = "winner"
                                     THEN AddBadge(db.badges, reg.user, "Winner")
                                     ELSE db.badges])

\* certificateSchema.statics.verifyCertificate: the first active certificate
\* with the code, 0 when none.
VerifyCertificate(db, code) ==
    LET hits == {i \in CertIds(db) :
                    /\ db.certs[i].verificationCode = code
                    /\ db.certs[i].status = "active"}
    IN IF hits = {} THEN 0 ELSE CHOOSE i \in hits : \A j \in hits : i <= j

\* certificate.event.organizer.name in the verify route: the query populates
\* 'event' selecting its organizer field, which stays the organizer's id; an
\* id has no name property.
OrganizerName(ev) == "undefined"

\* router.get('/verify/:verificationCode')
GetVerify(db, code) ==
    LET i == VerifyCertificate(db, code) IN
    IF i = 0
    THEN [msg |-> "Certificate not found or invalid verification code",
          certificateId |-> <<>>, userName |-> "none", event |-> "none",
          type |-> "none", organizer |-> "none", status |-> "none"]
    ELSE LET c == db.certs[i] IN
         [msg |-> "Certificate verified successfully",
          certificateId |-> c.certificateId, userName |-> c.user,
          event |-> c.event, type |-> c.type,
          organizer |-> IF c.event \in DOMAIN db.events
                        THEN OrganizerName(db.events[c.event]) ELSE "none",
          status |-> c.status]

\* certificateSchema.methods.revoke
CertRevoke(c, by, reason, t) ==
    [c EXCEPT !.status = "revoked", !.revokedAt = t, !.revokedBy = by,
              !.revokedReason = reason]

\* body('reason').trim().isLength({min: 5, max: 500})
ReasonValid(reason) == Len(reason) >= 5 /\ Len(reason) <= 500

\* The revoke route's test for a certificate revoked before.
AlreadyRevokedNever(c) == FALSE
AlreadyRevoked(c) == c.status = "revoked"

\* router.patch('/:id/revoke'), behind authorize('admin')
PatchRevoke(db, t, actor, i, reason) ==
    IF Role(actor) # "admin"
        THEN Reply("User role is not authorized to access this route", db)
    ELSE IF ~ReasonValid(reason) THEN Reply("Validation failed", db)
    ELSE IF i \notin CertIds(db) THEN Reply("Certificate not found", db)
    ELSE IF AlreadyRevoked(db.certs[i])
        THEN Reply("Certificate is already revoked", db)
    ELSE Reply("Certificate revoked successfully",
               [db EXCEPT !.certs[i] =
                   CertRevoke(db.certs[i], actor, reason, t)])

\* certificateSchema.methods.recordDownload (the history is not modelled)
RecordDownload(c) == [c EXCEPT !.downloads = @ + 1]

\* certificateSchema.methods.recordShare.  socialShares[platform] has no
\* default, so its increment is never taken; only shareCount moves.
RecordShare(c) == [c EXCEPT !.shareCount = @ + 1]

\* router.get('/:id/download')
GetDownload(db, actor, i) ==
    IF i \notin CertIds(db) THEN Reply("Certificate not found", db)
    ELSE IF ~(db.certs[i].user = actor \/ Role(actor) = "admin")
        THEN Reply("Not authorized to download this certificate", db)
    ELSE Reply("file sent",
               [db EXCEPT !.certs[i] = RecordDownload(db.certs[i])])

\* router.post('/:id/share'); the platform has passed isIn([...]).
PostShare(db, actor, i) ==
    IF i \notin CertIds(db) THEN Reply("Certificate not found", db)
    ELSE IF db.certs[i].user # actor
        THEN Reply("Not authorized to share this certificate", db)
    ELSE Reply("Share URL generated successfully",
               [db EXCEPT !.certs[i] = RecordShare(db.certs[i])])

\* Reasons sent with a revoke request: one too short, one accepted.
RevokeReasons == {"bad", "issued in error"}

GenerateCertificate ==
    \E actor \in Users, id \in 1..(Len(regs) + 1), type \in CertTypes,
       rnd \in 1..MaxRandom, code \in 1..MaxRandom, pdfOk \in BOOLEAN :
        /\ Commit(PostGenerate(DB, now, actor, id, type, rnd, code, pdfOk))
        /\ UNCHANGED now

RevokeCertificate ==
    \E actor \in Users, i \in 1..(Len(certs) + 1), reason \in RevokeReasons :
        /\ Commit(PatchRevoke(DB, now, actor, i, reason))
        /\ UNCHANGED now

DownloadCertificate ==
    \E actor \in Users, i \in 1..(Len(certs) + 1) :
        /\ i \in CertIds(DB) => certs[i].downloads < MaxRecords
        /\ Commit(GetDownload(DB, actor, i))
        /\ UNCHANGED now

ShareCertificate ==
    \E actor \in Users, i \in 1..(Len(certs) + 1) :
        /\ i \in CertIds(DB) => certs[i].shareCount < MaxRecords
        /\ Commit(PostShare(DB, actor, i))
        /\ UNCHANGED now

InitCert ==
    /\ InitDB
    /\ events = [e \in EventIds |-> EventConfig(MaxCapacity, 0, {"ann"})]

NextCert == CreateRegistration \/ GenerateCertificate \/ RevokeCertificate

SpecCert == InitCert /\ [][NextCert]_vars

\* Two events of one seat each, so that one user can be awarded at both.
AwardEvents == {"e1", "e2"}

\* The types requested in this scenario: one without and one with a badge.
AwardTypes == {"participation", "winner"}

\* The generate route called by the organizer, the document rendered, the two
\* random draws equal.
AwardCertificate ==
    \E id \in 1..Len(regs), type \in AwardTypes, k \in 1..MaxRandom :
        /\ Commit(PostGenerate(DB, now, "cy", id, type, k, k, TRUE))
        /\ UNCHANGED now

InitAward ==
    /\ InitDB
    /\ events = [e \in AwardEvents |-> EventConfig(1, 0, {})]

NextAward == CreateRegistration \/ AwardCertificate

SpecAward == InitAward /\ [][NextAward]_vars

\* One event of one seat: registration, award, revocation, download, share.
InitRevoke ==
    /\ InitDB
    /\ events = [e \in EventIds |-> EventConfig(1, 0, {})]

NextRevoke ==
    \/ CreateRegistration \/ AwardCertificate \/ RevokeCertificate
    \/ DownloadCertificate \/ ShareCertificate

SpecRevoke == InitRevoke /\ [][NextRevoke]_vars

\* -------------------------------------------------------------- attendance
SessionNames == {"keynote", "workshop"}

\* this.attendance.sessions.find(s => s.sessionName === sessionName): the
\* index of the first entry with the name, 0 when none.
FindSession(att, name) ==
    LET hits == {k \in 1..Len(att.sessions) : att.sessions[k].sessionName = name}
    IN IF hits = {} THEN 0 ELSE CHOOSE k \in hits : \A j \in hits : k <= j

\* The body of markSessionAttendance up to the save.  The nested path
\* attendance is never falsy, so the initialising branch is never taken.
MarkSession(att, name, attended) ==
    LET k == FindSession(att, name) IN
    IF k # 0
    THEN LET wasAttended == att.sessions[k].attended IN
         [att EXCEPT !.sessions[k].attended = attended,
                     !.attendedSessions =
                         IF attended /\ ~wasAttended
                             THEN JsAdd(att.attendedSessions, 1)
                         ELSE IF ~attended /\ wasAttended
                             THEN JsSub(att.attendedSessions, 1)
                         ELSE att.attendedSessions]
    ELSE [att EXCEPT !.sessions = Append(att.sessions,
                                         [sessionName |-> name,
                                          attended |-> attended]),
                     !.totalSessions = JsAdd(att.totalSessions, 1),
                     !.attendedSessions =
                         IF attended THEN JsAdd(att.attendedSessions, 1)
                         ELSE att.attendedSessions]

\* registrationSchema.pre('save')
PreSaveAttendance(att) ==
    IF JsGt(att.totalSessions, 0)
    THEN [att EXCEPT !.attendancePercentage =
                         Ratio(att.attendedSessions * 100, att.totalSessions)]
    ELSE att

\* What the Number cast does with a NaN counter when the document is saved:
\* the write goes through with the NaN, or the save is rejected and the stored
\* document keeps its old value.
CastOutcomes == {"stored", "rejected"}

\* markSessionAttendance including its save, on the stored document.
MarkSessionAttendance(reg, name, attended, cast) ==
    LET att == MarkSession(reg.attendance, name, attended) IN
    IF (att.totalSessions = NaN \/ att.attendedSessions = NaN)
       /\ cast = "rejected"
    THEN reg
    ELSE [reg EXCEPT !.attendance = PreSaveAttendance(att)]

MarkAttendance ==
    \E id \in 1..Len(regs), name \in SessionNames, attended \in BOOLEAN,
       cast \in CastOutcomes :
        /\ regs' = [regs EXCEPT
                       ![id] = MarkSessionAttendance(regs[id], name, attended,
                                                     cast)]
        /\ UNCHANGED <<now, events, points, badges, certs, inflight,
                       userAttempts, notifications>>

NextAttend == CreateRegistration \/ MarkAttendance

SpecAttend == InitCert /\ [][NextAttend]_vars

\* ------------------------------------------------- interleaved requests
\* The create and join-team handlers run up to their next await and then
\* yield.  A request keeps what it has read: the event's currentParticipants
\* (count), the caller's points as loaded by authenticate (pts), the team
\* lead's document (lead, and leadLen of its teamMembers), and the id of the
\* registration it created (reg).
Finish(s) ==
    /\ inflight' = [inflight EXCEPT ![s] = NoRequest]
    /\ UNCHANGED <<userAttempts, notifications>>
Goto(s, r) ==
    /\ inflight' = [inflight EXCEPT ![s] = r]
    /\ UNCHANGED <<userAttempts, notifications>>

\* A request that would read the stored event document again.
EventSeenLive(r) == events[r.event]

\* The event document as the request read it.
EventSeen(r) == [events[r.event] EXCEPT !.currentParticipants = r.count]
\* The team lead's document as the request read it.
LeadSeen(r) == [regs[r.lead] EXCEPT !.teamMembers = SubSeq(@, 1, r.leadLen)]

\* authenticate, then the handler is entered
Receive ==
    \E s \in Slots, u \in Users, e \in EventIds :
        /\ inflight[s].pc = "idle"
        /\ \/ \E teamInfo \in BOOLEAN :
                Goto(s, [NoRequest EXCEPT !.pc = "findEvent", !.kind = "create",
                                          !.user = u, !.event = e,
                                          !.teamInfo = teamInfo,
                                          !.pts = points[u]])
           \/ \E code \in KnownCodes(DB) \cup {TeamCodeOf(now)} :
                Goto(s, [NoRequest EXCEPT !.pc = "findLead", !.kind = "join",
                                          !.user = u, !.event = e,
                                          !.code = code, !.pts = points[u]])
        /\ UNCHANGED <<now, events, regs, points, badges, certs>>

\* create: await Event.findById, then the status and isRegistrationOpen tests
FindEvent ==
    \E s \in Slots :
        LET r == inflight[s] IN
        /\ r.pc = "findEvent"
        /\ IF r.event \notin DOMAIN events THEN Finish(s)
           ELSE IF events[r.event].status # "approved" THEN Finish(s)
           ELSE IF ~IsRegistrationOpen(events[r.event], now) THEN Finish(s)
           ELSE Goto(s, [r EXCEPT !.pc = "findExisting",
                                  !.count = events[r.event].currentParticipants])
        /\ UNCHANGED <<now, events, regs, points, badges, certs>>

\* join-team: await Registration.findOne(lead).populate('event')
FindLead ==
    \E s \in Slots :
        LET r == inflight[s]
            l == FindTeamLead(DB, r.code, r.event) IN
        /\ r.pc = "findLead"
        /\ IF l = 0 THEN Finish(s)
           ELSE Goto(s, [r EXCEPT !.pc = "findExisting", !.lead = l,
                                  !.leadLen = Len(regs[l].teamMembers),
                                  !.count = events[r.event].currentParticipants])
        /\ UNCHANGED <<now, events, regs, points, badges, certs>>

\* await Registration.findOne({user, event}), then the tests up to the create
FindExisting ==
    \E s \in Slots :
        LET r == inflight[s] IN
        /\ r.pc = "findExisting"
        /\ IF FindRegistration(DB, r.user, r.event) # 0 THEN Finish(s)
           ELSE IF r.kind = "create"
           THEN IF JsGe(r.count, events[r.event].maxParticipants) THEN Finish(s)
                ELSE Goto(s, [r EXCEPT
                         !.pc = "create",
                         !.code = IF events[r.event].isTeamEvent /\ r.teamInfo
                                  THEN TeamCodeOf(now) ELSE NoCode])
           ELSE IF TeamIsFull(LeadSeen(r)) THEN Finish(s)
                ELSE Goto(s, [r EXCEPT !.pc = "create"])
        /\ UNCHANGED <<now, events, regs, points, badges, certs>>

\* await Registration.create(...)
Insert ==
    \E s \in Slots :
        LET r == inflight[s]
            ev == events[r.event]
            lead == r.kind = "create" /\ ev.isTeamEvent /\ r.teamInfo
            reg == IF r.kind = "create"
                   THEN NewRegistration(r.user, r.event, lead, r.code,
                            IF lead THEN ev.teamSizeMax ELSE Undefined)
                   ELSE [NewRegistration(r.user, r.event, FALSE, r.code,
                                         Undefined)
                            EXCEPT !.teamName = LeadSeen(r).teamName] IN
        /\ r.pc = "create"
        /\ IF ~UniqueIndexAllows(DB, r.user, r.event)
           THEN Finish(s) /\ UNCHANGED regs
           ELSE /\ regs' = Append(regs, reg)
                /\ Goto(s, [r EXCEPT !.reg = Len(regs) + 1,
                                     !.pc = IF r.kind = "create" THEN "qr"
                                            ELSE "addMember"])
        /\ UNCHANGED <<now, events, points, badges, certs>>

\* create: await generateEventQR(...), registration.save() inside try/catch
AttachQr ==
    \E s \in Slots, qrOk \in BOOLEAN :
        LET r == inflight[s] IN
        /\ r.pc = "qr"
        /\ regs' = [regs EXCEPT ![r.reg].hasQr = qrOk]
        /\ Goto(s, [r EXCEPT !.pc = "addParticipant"])
        /\ UNCHANGED <<now, events, points, badges, certs>>

\* join-team: await teamLead.addTeamMember(...); the test reads the lead's
\* document as loaded, the push reaches the stored array.
AddMember ==
    \E s \in Slots :
        LET r == inflight[s]
            joined == AddTeamMember(LeadSeen(r), r.user) IN
        /\ r.pc = "addMember"
        /\ IF ~joined.ok THEN Finish(s) /\ UNCHANGED regs
           ELSE /\ regs' = [regs EXCEPT
                               ![r.lead].teamMembers = Append(@, r.user)]
                /\ Goto(s, [r EXCEPT !.pc = "addParticipant"])
        /\ UNCHANGED <<now, events, points, badges, certs>>

\* await event.addParticipant(): test and increment on the document as
\* loaded, then saved.
CountParticipant ==
    \E s \in Slots :
        LET r == inflight[s]
            added == AddParticipant(EventSeen(r)) IN
        /\ r.pc = "addParticipant"
        /\ IF ~added.ok THEN Finish(s) /\ UNCHANGED events
           ELSE /\ events' = [events EXCEPT ![r.event] = added.ev]
                /\ Goto(s, [r EXCEPT !.pc = "addPoints"])
        /\ UNCHANGED <<now, regs, points, badges, certs>>

\* await req.user.addPoints(10), then the response
AwardPoints ==
    \E s \in Slots :
        LET r == inflight[s] IN
        /\ r.pc = "addPoints"
        /\ points' = [points EXCEPT ![r.user] = r.pts + 10]
        /\ Finish(s)
        /\ UNCHANGED <<now, events, regs, badges, certs>>

InitConc ==
    /\ InitDB
    /\ events = [e \in EventIds |-> EventConfig(MaxCapacity, MaxTeamSize, {})]

NextConc ==
    \/ Receive \/ FindEvent \/ FindLead \/ FindExisting \/ Insert
    \/ AttachQr \/ AddMember \/ CountParticipant \/ AwardPoints

SpecConc == InitConc /\ [][NextConc]_vars

\* ----------------------------------------------------------- events router
\* A request body of the events router: has names the fields the body
\* carries, and a field it does not carry keeps the value below.
BodyFields == {"status", "startDate", "endDate", "registrationDeadline",
               "maxParticipants", "currentParticipants", "teamSize"}
EmptyBody ==
    [has |-> {}, status |-> "none", startDate |-> 0, endDate |-> 0,
     registrationDeadline |-> 0, maxParticipants |-> 0,
     currentParticipants |-> 0, isTeamEvent |-> FALSE,
     teamSizeMin |-> 1, teamSizeMax |-> 1]

StatusEnum == {"draft", "pending", "approved", "rejected", "active",
               "completed", "cancelled"}

\* The body validators shared by create and update:
\* body('maxParticipants').optional().isInt({min: 1}).
BodyValid(body) ==
    "maxParticipants" \in body.has => body.maxParticipants >= 1

\* eventSchema.pre('save'): "ok" or the message of the Error passed to next.
EventPreSave(ev) ==
    IF ev.startDate >= ev.endDate THEN "End date must be after start date"
    ELSE IF ev.registrationDeadline > ev.startDate
        THEN "Registration deadline must be before or on start date"
    ELSE IF ev.isTeamEvent /\ ev.teamSizeMin > ev.teamSizeMax
        THEN "Minimum team size cannot be greater than maximum team size"
    ELSE "ok"

\* The fields of the body written over the document ({...req.body}), the
\* status excepted.
Merge(ev, body) ==
    [ev EXCEPT
        !.startDate = IF "startDate" \in body.has THEN body.startDate ELSE @,
        !.endDate = IF "endDate" \in body.has THEN body.endDate ELSE @,
        !.registrationDeadline =
            IF "registrationDeadline" \in body.has
            THEN body.registrationDeadline ELSE @,
        !.maxParticipants =
            IF "maxParticipants" \in body.has THEN body.maxParticipants ELSE @,
        !.currentParticipants =
            IF "currentParticipants" \in body.has
            THEN body.currentParticipants ELSE @,
        !.isTeamEvent = IF "teamSize" \in body.has THEN body.isTeamEvent ELSE @,
        !.teamSizeMin = IF "teamSize" \in body.has THEN body.teamSizeMin ELSE @,
        !.teamSizeMax = IF "teamSize" \in body.has THEN body.teamSizeMax ELSE @]

\* The document Event.create builds from the schema defaults and the body.
NewEvent(actor, body) ==
    Merge([status |-> IF Role(actor) = "admin" THEN "approved" ELSE "pending",
           organizer |-> actor, coOrganizers |-> {},
           registrationDeadline |-> 0, startDate |-> 0, endDate |-> 0,
           maxParticipants |-> Undefined, currentParticipants |-> 0,
           isTeamEvent |-> FALSE, teamSizeMin |-> 1, teamSizeMax |-> 1],
          body)

\* authorize(...roles)
Authorize(roles, actor) == Role(actor) \in roles

\* router.post('/') of the events router; id: the _id of the new document.
PostEvent(db, actor, id, body) ==
    IF ~Authorize({"organizer", "admin"}, actor)
        THEN Reply("User role is not authorized to access this route", db)
    ELSE IF ~({"startDate", "endDate", "registrationDeadline"} \subseteq body.has
              /\ BodyValid(body))
        THEN Reply("Validation failed", db)
    ELSE LET ev == NewEvent(actor, body) IN
    IF EventPreSave(ev) # "ok" THEN Reply("Error: pre-save", db)
    ELSE Reply("Event created successfully",
               [db EXCEPT !.events =
                   [e \in DOMAIN db.events \cup {id} |->
                       IF e = id THEN ev ELSE db.events[e]]])

\* authorizeEventAccess: admin, the event's organizer or a co-organizer.
MayAccessEvent(ev, actor) ==
    \/ Role(actor) = "admin"
    \/ ev.organizer = actor
    \/ actor \in ev.coOrganizers

\* hasSignificantChanges of the update route: a date in the body is a string
\* and never === the stored Date; location is not modelled.
HasSignificantChanges(ev, body) ==
    \/ "startDate" \in body.has
    \/ "endDate" \in body.has
    \/ /\ "maxParticipants" \in body.has
       /\ body.maxParticipants # 0
       /\ body.maxParticipants # ev.maxParticipants

\* router.put('/:id') of the events router.  findByIdAndUpdate runs the
\* schema validators of the paths it sets and no save middleware.
PutEvent(db, actor, e, body) ==
    IF e \notin DOMAIN db.events THEN Reply("Event not found", db)
    ELSE LET ev == db.events[e] IN
    IF ~MayAccessEvent(ev, actor)
        THEN Reply("Not authorized to access this event", db)
    ELSE IF ~BodyValid(body) THEN Reply("Validation failed", db)
    ELSE IF ev.status \in {"completed", "cancelled"}
        THEN Reply("Cannot edit completed or cancelled events", db)
    ELSE
        LET status ==
                IF /\ HasSignificantChanges(ev, body)
                   /\ Role(actor) # "admin"
                   /\ ev.status = "approved"
                THEN "pending"
                ELSE IF "status" \in body.has THEN body.status
                ELSE ev.status
        IN IF status \notin StatusEnum
           THEN Reply("Error: ValidationError", db)
           ELSE Reply("Event updated successfully",
                      [db EXCEPT !.events[e] =
                          [Merge(ev, body) EXCEPT !.status = status]])

\* A count that would pass over cancelled registrations.
RegistrationCountLive(db, e) ==
    Cardinality({i \in RegIds(db) :
                    db.regs[i].event = e /\ db.regs[i].status # "cancelled"})

\* Registration.countDocuments({event})
RegistrationCount(db, e) ==
    Cardinality({i \in RegIds(db) : db.regs[i].event = e})

\* router.delete('/:id') of the events router
DeleteEventRoute(db, actor, e) ==
    IF e \notin DOMAIN db.events THEN Reply("Event not found", db)
    ELSE LET ev == db.events[e] IN
    IF ~MayAccessEvent(ev, actor)
        THEN Reply("Not authorized to access this event", db)
    ELSE IF RegistrationCount(db, e) > 0 /\ Role(actor) # "admin"
        THEN Reply("Cannot delete event with existing registrations. Cancel the event instead.",
                   db)
    ELSE IF RegistrationCount(db, e) > 0
        THEN IF EventPreSave(ev) # "ok" THEN Reply("Error: pre-save", db)
             ELSE Reply("Event cancelled successfully",
                        [db EXCEPT !.events[e].status = "cancelled"])
    ELSE Reply("Event deleted successfully",
               [db EXCEPT !.events =
                   [x \in DOMAIN db.events \ {e} |-> db.events[x]]])

\* router.patch('/:id/status') of the events router
PatchEventStatus(db, actor, e, status) ==
    IF ~Authorize({"admin"}, actor)
        THEN Reply("User role is not authorized to access this route", db)
    ELSE IF status \notin {"approved", "rejected"}
        THEN Reply("Validation failed", db)
    ELSE IF e \notin DOMAIN db.events THEN Reply("Event not found", db)
    ELSE Reply(IF status = "approved" THEN "Event approved successfully"
               ELSE "Event rejected successfully",
               [db EXCEPT !.events[e].status = status])

\* Bodies of event requests.
DatesBody(s, e, d) ==
    [EmptyBody EXCEPT !.has = {"startDate", "endDate", "registrationDeadline"},
                      !.startDate = s, !.endDate = e,
                      !.registrationDeadline = d]
WithCapacity(body, m) ==
    [body EXCEPT !.has = @ \cup {"maxParticipants"}, !.maxParticipants = m]
WithCount(body, n) ==
    [body EXCEPT !.has = @ \cup {"currentParticipants"},
                 !.currentParticipants = n]
WithStatus(body, st) ==
    [body EXCEPT !.has = @ \cup {"status"}, !.status = st]
WithTeamSize(body, lo, hi) ==
    [body EXCEPT !.has = @ \cup {"teamSize"}, !.isTeamEvent = TRUE,
                 !.teamSizeMin = lo, !.teamSizeMax = hi]

Dates == 1..MaxTime

CreateBodies ==
    LET dated == {DatesBody(s, e, d) : s \in Dates, e \in Dates, d \in Dates}
        sized == dated \cup {WithCapacity(b, m) : b \in dated,
                                                  m \in 0..MaxCapacity}
    IN sized \cup {WithTeamSize(b, lo, hi) :
                      b \in sized, lo \in 1..2, hi \in 1..MaxTeamSize}
          \cup {WithCapacity(EmptyBody, 1)}

CapacityBodies ==
    {WithCapacity(EmptyBody, m) : m \in 0..MaxCapacity}
        \cup {WithCount(EmptyBody, n) : n \in 0..(MaxCapacity + 1)}

UpdateBodies ==
    CapacityBodies
        \cup {WithStatus(EmptyBody, st) : st \in {"approved", "pending",
                                                  "archived"}}
        \cup {WithStatus(WithCapacity(EmptyBody, 1), "approved")}
        \cup {[EmptyBody EXCEPT !.has = {"startDate"}, !.startDate = t] :
                 t \in Dates}
        \cup {[EmptyBody EXCEPT !.has = {"endDate"}, !.endDate = t] :
                 t \in Dates}
        \cup {[EmptyBody EXCEPT !.has = {"registrationDeadline"},
                                !.registrationDeadline = t] : t \in Dates}
        \cup {WithTeamSize(EmptyBody, 2, 1)}

CreateEvent ==
    \E actor \in Users, id \in EventIds \ DOMAIN events, body \in CreateBodies :
        /\ Commit(PostEvent(DB, actor, id, body))
        /\ UNCHANGED now

UpdateEvent ==
    \E actor \in Users, e \in EventIds, body \in UpdateBodies :
        /\ Commit(PutEvent(DB, actor, e, body))
        /\ UNCHANGED now

\* The update route under bodies that carry a capacity or a counter only.
UpdateCapacity ==
    \E actor \in Users, e \in EventIds, body \in CapacityBodies :
        /\ Commit(PutEvent(DB, actor, e, body))
        /\ UNCHANGED now

DeleteEvent ==
    \E actor \in Users, e \in EventIds :
        /\ Commit(DeleteEventRoute(DB, actor, e))
        /\ UNCHANGED now

SetEventStatus ==
    \E actor \in Users, e \in EventIds,
       status \in {"approved", "rejected", "cancelled"} :
        /\ Commit(PatchEventStatus(DB, actor, e, status))
        /\ UNCHANGED now

\* No event yet.
InitEvents ==
    /\ InitDB
    /\ events = [e \in {} |-> EmptyBody]

NextEvents == CreateEvent \/ UpdateEvent \/ DeleteEvent \/ SetEventStatus

SpecEvents == InitEvents /\ [][NextEvents]_vars

InitCounter ==
    /\ InitDB
    /\ events \in [EventIds -> {EventConfig(m, 0, {}) : m \in 1..MaxCapacity}]

NextCounter ==
    Tick \/ CreateRegistration \/ CancelRegistration \/ UpdateCapacity

SpecCounter == InitCounter /\ [][NextCounter]_vars

\* ------------------------------------------------- team information
\* body('teamName').optional().trim().isLength({min: 2, max: 50});
\* NoTeamName stands for a body without the field.
TeamNameValid(name) ==
    name = NoTeamName \/ (Len(name) >= 2 /\ Len(name) <= 50)

\* router.put('/:id/team')
PutTeam(db, actor, id, name) ==
    IF ~TeamNameValid(name) THEN Reply("Validation failed", db)
    ELSE IF id \notin RegIds(db) THEN Reply("Registration not found", db)
    ELSE LET reg == db.regs[id] IN
    IF ~reg.isTeamLead \/ reg.user # actor
        THEN Reply("Only team lead can update team information", db)
    ELSE Reply("Team information updated successfully",
               IF name # NoTeamName
               THEN [db EXCEPT !.regs[id].teamName = name]
               ELSE db)

\* Team names a client sends: none, one too short, one accepted.
TeamNames == {NoTeamName, "x", "crew"}

UpdateTeam ==
    \E actor \in Users, id \in 1..(Len(regs) + 1), name \in TeamNames :
        /\ Commit(PutTeam(DB, actor, id, name))
        /\ UNCHANGED now

\* Registrations of a one-seat team event that are created, cancelled,
\* checked in and renamed.
InitTerminal ==
    /\ InitDB
    /\ events = [e \in EventIds |-> EventConfig(1, MaxTeamSize, {})]

NextTerminal ==
    CreateRegistration \/ CancelRegistration \/ CheckIn \/ UpdateTeam

SpecTerminal == InitTerminal /\ [][NextTerminal]_vars

\* Events with registrations that are created and cancelled, and delete
\* requests for the event.
NextDelete == CreateRegistration \/ CancelRegistration \/ DeleteEvent

SpecDelete == InitCounter /\ [][NextDelete]_vars

\* ------------------------------------------- interleaved check-ins
\* The check-in handler (method 'manual') run up to each await.  A request
\* keeps the id of the registration it loaded (reg) and the points of the
\* user document it loaded (pts).
\* await Registration.findById(id).populate('event'), then the
\* authorization and isCheckedIn tests on the loaded document.
LoadRegistration ==
    \E s \in Slots, actor \in Users, id \in RegIds(DB) :
        /\ inflight[s].pc = "idle"
        /\ regs[id].event \in DOMAIN events
        /\ MayCheckIn(events[regs[id].event], actor)
        /\ ~regs[id].isCheckedIn
        /\ Goto(s, [NoRequest EXCEPT !.pc = "checkIn", !.kind = "checkin",
                                     !.user = actor, !.event = regs[id].event,
                                     !.reg = id])
        /\ UNCHANGED <<now, events, regs, points, badges, certs>>

\* await registration.checkIn(method, location, req.user._id)
SaveCheckIn ==
    \E s \in Slots :
        LET r == inflight[s] IN
        /\ r.pc = "checkIn"
        /\ regs' = [regs EXCEPT ![r.reg] = RegCheckIn(@)]
        /\ Goto(s, [r EXCEPT !.pc = "findUser"])
        /\ UNCHANGED <<now, events, points, badges, certs>>

\* const user = await User.findById(registration.user)
LoadUser ==
    \E s \in Slots :
        LET r == inflight[s] IN
        /\ r.pc = "findUser"
        /\ Goto(s, [r EXCEPT !.pc = "addAttendancePoints",
                             !.pts = points[regs[r.reg].user]])
        /\ UNCHANGED <<now, events, regs, points, badges, certs>>

\* await user.addPoints(20, 'Event attendance'), then the response
AwardAttendance ==
    \E s \in Slots :
        LET r == inflight[s] IN
        /\ r.pc = "addAttendancePoints"
        /\ points' = [points EXCEPT ![regs[r.reg].user] = r.pts + 20]
        /\ Finish(s)
        /\ UNCHANGED <<now, events, regs, badges, certs>>

InitRace ==
    /\ InitDB
    /\ events = [e \in EventIds |-> EventConfig(MaxCapacity, 0, {})]

NextRace ==
    \/ CreateRegistration \/ LoadRegistration \/ SaveCheckIn
    \/ LoadUser \/ AwardAttendance

SpecRace == InitRace /\ [][NextRace]_vars

\* ------------------------------------------------ rate-limited requests
\* A request of ann or cy passing through sensitiveOperationLimit; a user's
\* count is followed up to two rejected attempts.
Attempt ==
    \E u \in {"ann", "cy"} :
        LET r == SensitiveOperationLimit(userAttempts, u, now) IN
        /\ r.store[u].count <= MaxAttempts + 2
        /\ userAttempts' = r.store
        /\ UNCHANGED <<now, events, regs, points, badges, certs, inflight,
                       notifications>>

\* Date.now() moves on by exactly the window or by one millisecond more.
Wait ==
    \E d \in {WindowMs, WindowMs + 1} :
        /\ now + d <= MaxTime * (WindowMs + 1)
        /\ now' = now + d
        /\ UNCHANGED <<events, regs, points, badges, certs, inflight,
                       userAttempts, notifications>>

NextLimit == Attempt \/ Wait

SpecLimit == InitEvents /\ [][NextLimit]_vars

\* --------------------------------------------------------- notifications
\* router.post('/') of the notifications router: the body's recipients
\* (users, all) and expiresAt (Undefined when absent) are stored with
\* status 'sent'.
PostNotification(ns, actor, users, all, expiresAt) ==
    IF ~Authorize({"admin"}, actor) THEN ns
    ELSE Append(ns, [users |-> users, all |-> all, status |-> "sent",
                     expiresAt |-> expiresAt])

\* Notification.findForUser(userId) at clock t: the ids matched by the
\* query object.  The object literal names the key $or twice, so it holds
\* only the second one, the expiry alternative; the recipients alternative
\* is not part of the query that reaches find().
FindForUser(ns, userId, t) ==
    {i \in 1..Len(ns) :
        /\ ns[i].status = "sent"
        /\ \/ ns[i].expiresAt = Undefined
           \/ ns[i].expiresAt >= t}

CreateNotification ==
    \E actor \in Users, users \in SUBSET {"ann", "cy"}, all \in BOOLEAN,
       expiresAt \in {Undefined} \cup (1..MaxTime) :
        /\ Len(notifications) <= MaxRecords
        /\ notifications' =
               PostNotification(notifications, actor, users, all, expiresAt)
        /\ UNCHANGED <<now, events, regs, points, badges, certs, inflight,
                       userAttempts>>

NextNotify == Tick \/ CreateNotification

SpecNotify == InitEvents /\ [][NextNotify]_vars

\* ================================================================= claims
LiveRegs(db, e) ==
    {i \in RegIds(db) : db.regs[i].event = e /\ db.regs[i].status # "cancelled"}

\* C1: under sequential create-registration, join-team and cancel requests,
\* an event with finite maxParticipants = C never has more than C
\* registrations whose status is not 'cancelled'.
C1_CapacityNeverExceeded ==
    \A e \in DOMAIN events :
        IsNumber(events[e].maxParticipants) =>
            Cardinality(LiveRegs(DB, e)) <= events[e].maxParticipants

CreateRejections ==
    {"Event not found", "Event is not available for registration",
     "Registration for this event is closed",
     "You are already registered for this event"}

TeamRegs(db, i) ==
    {j \in RegIds(db) : /\ db.regs[j].event = db.regs[i].event
                        /\ db.regs[j].teamCode = db.regs[i].teamCode}

\* C8: under sequential operation, for every team-lead registration L the
\* registrations of its event that carry L's team code number at most
\* L.maxMembers, and a join-team at lead + members = maxMembers is rejected
\* with 'Team is already full' and creates nothing.
C8_TeamWithinMaxMembers ==
    \A i \in RegIds(DB) :
        regs[i].isTeamLead =>
            /\ Cardinality(TeamRegs(DB, i)) <= regs[i].maxMembers
            /\ \A u \in Users :
                 (/\ FindTeamLead(DB, regs[i].teamCode, regs[i].event) = i
                  /\ FindRegistration(DB, u, regs[i].event) = 0
                  /\ Len(regs[i].teamMembers) + 1 = regs[i].maxMembers) =>
                    LET r == PostJoinTeam(DB, now, u, regs[i].teamCode,
                                          regs[i].event)
                    IN r.msg = "Team is already full" /\ r.db = DB

\* C9: a cancel by the owner or an admin before the event's start sets the
\* status to 'cancelled', lowers currentParticipants by one (0 stays 0) and
\* leaves the points alone; at or after the start, or by anyone else, it is
\* rejected and changes nothing.
C9_CancelEffect ==
    \A actor \in Users, id \in RegIds(DB) :
        LET reg == regs[id]
            ev == events[reg.event]
            r == DeleteRegistration(DB, now, actor, id)
            allowed == (reg.user = actor \/ Role(actor) = "admin")
                       /\ now < ev.startDate
        IN IF allowed
           THEN /\ r.msg = "Registration cancelled successfully"
                /\ r.db.regs = [regs EXCEPT ![id].status = "cancelled"]
                /\ r.db.events[reg.event].currentParticipants =
                       IF ev.currentParticipants = 0 THEN 0
                       ELSE ev.currentParticipants - 1
                /\ r.db.points = points
           ELSE /\ r.db = DB
                /\ r.msg \in {"Not authorized to cancel this registration",
                              "Cannot cancel registration after event has started"}

\* C9 witness: a registration has been cancelled, the event's counter is
\* back at 0 and its owner still holds the 10 registration points.
C9_Witness ==
    \E id \in RegIds(DB) :
        /\ regs[id].status = "cancelled"
        /\ events[regs[id].event].currentParticipants = 0
        /\ points[regs[id].user] = 10
        /\ Len(regs) = 1

\* C10: at a full approved event (currentParticipants = maxParticipants)
\* whose deadline has not passed, a create-registration by a user without a
\* registration is rejected with 'Event is full' and changes nothing.
C10_FullEventRejectedAsFull ==
    \A u \in Users, e \in EventIds, teamInfo \in BOOLEAN, qrOk \in BOOLEAN :
        (/\ events[e].status = "approved"
         /\ now <= events[e].registrationDeadline
         /\ events[e].currentParticipants = events[e].maxParticipants
         /\ FindRegistration(DB, u, e) = 0) =>
            LET r == PostRegistration(DB, now, u, e, teamInfo, qrOk)
            IN r.msg = "Event is full" /\ r.db = DB

AllMethods == {"manual", "self-checkin", "qr-code"}

C5_FeedbackOnceAfterEnd ==
    \A id \in RegIds(DB), rating \in Ratings, rating2 \in Ratings :
        LET reg == regs[id]
            ev == events[reg.event]
            r == PostFeedback(DB, now, reg.user, id, rating)
        IN IF now < ev.endDate
           THEN /\ reg.feedbackSubmittedAt = Undefined
                /\ r.msg = "Cannot submit feedback before event completion"
                /\ r.db = DB
           ELSE IF reg.feedbackSubmittedAt # Undefined
           THEN /\ r.msg = "Feedback has already been submitted"
                /\ r.db = DB
           ELSE /\ r.msg = "Feedback submitted successfully"
                /\ r.db.regs = [regs EXCEPT ![id].feedbackSubmittedAt = now,
                                            ![id].feedbackRating = rating]
                /\ r.db.points = [points EXCEPT ![reg.user] = @ + 5]
                /\ \A t2 \in now..MaxTime :
                     LET r2 == PostFeedback(r.db, t2, reg.user, id, rating2)
                     IN /\ r2.msg = "Feedback has already been submitted"
                        /\ r2.db = r.db

\* C5 witness: after the event's end a registration carries feedback, its
\* owner holds 10 + 5 points, and a second submission with another rating is
\* answered 'Feedback has already been submitted'.
C5_Witness ==
    \E id \in RegIds(DB) :
        /\ now >= events[regs[id].event].endDate
        /\ regs[id].feedbackSubmittedAt # Undefined
        /\ regs[id].feedbackRating = 1
        /\ points[regs[id].user] = 15
        /\ PostFeedback(DB, now, regs[id].user, id, 5).msg
               = "Feedback has already been submitted"

\* C6: each (user, event, type) triple has at most one certificate; a second
\* generation for an existing triple is rejected, creates no certificate and
\* awards no points; and verifying with a certificate's code returns that
\* certificate's organizer, event and type.
C6_OneCertificateVerifiable ==
    /\ \A i, j \in CertIds(DB) :
           (/\ certs[i].user = certs[j].user
            /\ certs[i].event = certs[j].event
            /\ certs[i].type = certs[j].type) => i = j
    /\ \A actor \in {"cy", "dee"}, id \in RegIds(DB), type \in CertTypes,
          rnd \in 1..MaxRandom, code \in 1..MaxRandom, pdfOk \in BOOLEAN :
           FindCertificate(DB, regs[id].user, regs[id].event, type) =>
               LET r == PostGenerate(DB, now, actor, id, type, rnd, code, pdfOk)
               IN /\ r.msg = "Certificate already exists for this user and event"
                  /\ r.db = DB
    /\ \A i \in CertIds(DB) :
           LET v == GetVerify(DB, certs[i].verificationCode) IN
           /\ v.certificateId = certs[i].certificateId
           /\ v.event = certs[i].event
           /\ v.type = certs[i].type
           /\ v.organizer = events[certs[i].event].organizer

\* The number of sessions of an attendance record marked attended.
AttendedCount(att) ==
    Cardinality({k \in 1..Len(att.sessions) : att.sessions[k].attended})

CountersConsistent(att) ==
    /\ att.totalSessions = Len(att.sessions)
    /\ att.attendedSessions = AttendedCount(att)
    /\ att.attendancePercentage.n * att.totalSessions
           = att.attendedSessions * 100 * att.attendancePercentage.d

\* C7: a markSessionAttendance call records the session, after it
\* totalSessions is the number of session names recorded, attendedSessions the
\* number marked attended and attendancePercentage their ratio times 100; and
\* re-recording 'attended' for an attended session changes none of the three.
C7_AttendanceCounters ==
    \A id \in RegIds(DB), name \in SessionNames, attended \in BOOLEAN,
       cast \in CastOutcomes :
        LET before == regs[id].attendance
            after == MarkSessionAttendance(regs[id], name, attended,
                                           cast).attendance
            k == FindSession(after, name)
        IN /\ k # 0
           /\ after.sessions[k].attended = attended
           /\ CountersConsistent(after)
           /\ (/\ FindSession(before, name) # 0
               /\ before.sessions[FindSession(before, name)].attended
               /\ attended)
              => /\ after.totalSessions = before.totalSessions
                 /\ after.attendedSessions = before.attendedSessions
                 /\ after.attendancePercentage = before.attendancePercentage

\* C2: in every state reached by interleaved create and join-team requests
\* there is at most one registration per (user, event) pair.
C2_OneRegistrationPerPair ==
    \A i, j \in RegIds(DB) :
        (regs[i].user = regs[j].user /\ regs[i].event = regs[j].event)
            => i = j

\* A create and a join-team request of one user have both passed the
\* existing-registration test; one has inserted, the other is about to.
C2_Witness ==
    \E s1, s2 \in Slots :
        /\ inflight[s1].kind = "create" /\ inflight[s2].kind = "join"
        /\ inflight[s1].user = inflight[s2].user
        /\ \/ inflight[s1].pc = "create" /\ inflight[s2].pc = "addMember"
           \/ inflight[s1].pc = "qr" /\ inflight[s2].pc = "create"

\* C11: an event's currentParticipants lies between 0 and maxParticipants
\* when that is set, and no event update changes currentParticipants.
C11_CounterOnlyByRegistrations ==
    \A e \in DOMAIN events :
        /\ IsNumber(events[e].maxParticipants) =>
               /\ events[e].currentParticipants >= 0
               /\ events[e].currentParticipants <= events[e].maxParticipants
        /\ \A actor \in Users, body \in CapacityBodies :
               PutEvent(DB, actor, e, body).db.events[e].currentParticipants
                   = events[e].currentParticipants

\* C12: an approved event without maxParticipants whose deadline has not
\* passed accepts a create-registration from every user who has no
\* registration for it.
C12_UnlimitedEventAccepts ==
    \A u \in Users, e \in DOMAIN events, teamInfo \in BOOLEAN, qrOk \in BOOLEAN :
        (/\ events[e].status = "approved"
         /\ events[e].maxParticipants = Undefined
         /\ now <= events[e].registrationDeadline
         /\ FindRegistration(DB, u, e) = 0) =>
            LET r == PostRegistration(DB, now, u, e, teamInfo, qrOk)
            IN /\ r.msg = "Successfully registered for the event"
               /\ FindRegistration(r.db, u, e) # 0

\* C13: an event created by an organizer starts 'pending' and one created by
\* an admin starts 'approved'; no request of a non-admin (update, delete,
\* status change) moves an event that is not approved to 'approved'.
C13_ApprovalOnlyByAdmin ==
    /\ \A actor \in Users, id \in EventIds \ DOMAIN events,
          body \in CreateBodies :
           LET r == PostEvent(DB, actor, id, body) IN
           r.msg = "Event created successfully" =>
               r.db.events[id].status =
                   IF Role(actor) = "admin" THEN "approved" ELSE "pending"
    /\ \A e \in DOMAIN events, actor \in Users :
           (Role(actor) # "admin" /\ events[e].status # "approved") =>
               LET stays(r) == e \in DOMAIN r.db.events =>
                                   r.db.events[e].status # "approved"
               IN /\ \A body \in UpdateBodies :
                         stays(PutEvent(DB, actor, e, body))
                  /\ \A st \in {"approved", "rejected"} :
                         stays(PatchEventStatus(DB, actor, e, st))
                  /\ stays(DeleteEventRoute(DB, actor, e))

\* C14: every stored event has registrationDeadline <= startDate < endDate,
\* and teamSize.min <= teamSize.max when it is a team event.
C14_StoredEventsWellFormed ==
    \A e \in DOMAIN events :
        /\ events[e].registrationDeadline <= events[e].startDate
        /\ events[e].startDate < events[e].endDate
        /\ events[e].isTeamEvent =>
               events[e].teamSizeMin <= events[e].teamSizeMax

\* C15: certificate generation passes the authorization guard exactly for
\* the event's organizer, its co-organizers and admins; any other caller is
\* rejected and nothing changes.
C15_GenerateAuthorization ==
    \A actor \in Users, id \in RegIds(DB), type \in CertTypes,
       rnd \in 1..MaxRandom, code \in 1..MaxRandom :
        LET ev == events[regs[id].event]
            r == PostGenerate(DB, now, actor, id, type, rnd, code, TRUE)
            denied == r.msg =
                "Not authorized to generate certificates for this event"
        IN IF \/ ev.organizer = actor
              \/ actor \in ev.coOrganizers
              \/ Role(actor) = "admin"
           THEN ~denied
           ELSE denied /\ r.db = DB

\* C16: a successful generation stamps the registration (isEligible,
\* certificateId), adds exactly 25 / 50 / 30 / 75 / 100 points for
\* participation / completion / appreciation / achievement / winner to the
\* recipient and to nobody else, appends the 'Winner' badge for the winner
\* type only when the recipient holds none of that name; and the badge names
\* of every user are pairwise distinct.
C16_GenerationAwards ==
    /\ \A u \in Users : \A i, j \in 1..Len(badges[u]) :
           badges[u][i] = badges[u][j] => i = j
    /\ \A actor \in Users, id \in RegIds(DB), type \in CertTypes,
          rnd \in 1..MaxRandom, code \in 1..MaxRandom :
           LET r == PostGenerate(DB, now, actor, id, type, rnd, code, TRUE)
               u == regs[id].user
               amount == CASE type = "participation" -> 25
                           [] type = "completion" -> 50
                           [] type = "appreciation" -> 30
                           [] type = "achievement" -> 75
                           [] type = "winner" -> 100
               holds == \E i \in 1..Len(badges[u]) : badges[u][i] = "Winner"
           IN r.msg = "Certificate generated successfully" =>
               /\ r.db.regs[id].certEligible
               /\ r.db.regs[id].certificateId = <<"CERT", now, rnd>>
               /\ r.db.points = [points EXCEPT ![u] = @ + amount]
               /\ r.db.badges =
                      IF type = "winner" /\ ~holds
                      THEN [badges EXCEPT ![u] = Append(@, "Winner")]
                      ELSE badges

\* C16 witness: a user who won at both events holds 2 * (10 + 100) points
\* and the 'Winner' badge once.
C16_Witness ==
    \E u \in Users :
        /\ Cardinality({i \in CertIds(DB) :
               certs[i].user = u /\ certs[i].type = "winner"}) = 2
        /\ points[u] = 220
        /\ badges[u] = <<"Winner">>

\* C17: a revoked certificate stays revoked in every later state; a further
\* revoke request, whatever its reason and time, is answered 'Certificate is
\* already revoked' and leaves revokedAt, revokedBy and revokedReason as they
\* are; recording a download or a share never changes the status.
C17_RevocationOneWay ==
    /\ [][\A i \in CertIds(DB) :
             certs[i].status = "revoked" =>
                 /\ i <= Len(certs')
                 /\ certs'[i].status = "revoked"
                 /\ certs'[i].revokedAt = certs[i].revokedAt
                 /\ certs'[i].revokedBy = certs[i].revokedBy
                 /\ certs'[i].revokedReason = certs[i].revokedReason]_vars
    /\ [](\A i \in CertIds(DB), actor \in Users :
             /\ certs[i].status = "revoked" =>
                    \A t \in now..MaxTime,
                       reason \in RevokeReasons \cup {"duplicate entry"} :
                        LET r == PatchRevoke(DB, t, actor, i, reason)
                        IN Role(actor) = "admin" /\ ReasonValid(reason) =>
                            /\ r.msg = "Certificate is already revoked"
                            /\ r.db = DB
             /\ GetDownload(DB, actor, i).db.certs[i].status = certs[i].status
             /\ PostShare(DB, actor, i).db.certs[i].status = certs[i].status)

\* C17 witness: a certificate revoked by the admin, downloaded and shared,
\* is revoked, and a further revoke request with another reason is answered
\* 'Certificate is already revoked'.
C17_Witness ==
    \E i \in CertIds(DB) :
        /\ certs[i].status = "revoked"
        /\ certs[i].revokedBy = "dee"
        /\ certs[i].downloads > 0
        /\ certs[i].shareCount > 0
        /\ PatchRevoke(DB, MaxTime, "dee", i, "duplicate entry").msg
               = "Certificate is already revoked"

TerminalStatuses == {"cancelled", "completed"}

\* C18: a registration whose status is 'cancelled' or 'completed' keeps
\* that status under every later request on it: check-in (either method,
\* any payload), cancel, feedback, certificate generation and team update,
\* by any user; in particular check-in moves a registration to 'checked-in'
\* only from a non-terminal status.
C18_CancelledIsTerminal ==
    \A id \in RegIds(DB) :
        regs[id].status \in TerminalStatuses =>
            \A actor \in Users :
                /\ \A method \in CheckInMethods :
                       \A qr \in QrInputs(id, regs[id].event, now) :
                           PostCheckIn(DB, now, actor, id, method, qr)
                               .db.regs[id].status = regs[id].status
                /\ DeleteRegistration(DB, now, actor, id).db.regs[id].status
                       = regs[id].status
                /\ \A rating \in Ratings :
                       PostFeedback(DB, now, actor, id, rating)
                           .db.regs[id].status = regs[id].status
                /\ \A type \in CertTypes, pdfOk \in BOOLEAN :
                       PostGenerate(DB, now, actor, id, type, 1, 1, pdfOk)
                           .db.regs[id].status = regs[id].status
                /\ \A name \in TeamNames :
                       PutTeam(DB, actor, id, name).db.regs[id].status
                           = regs[id].status

\* What the check-in rules ask of a presented payload qr for registration
\* id at clock t: presented, well-formed, of type 'event-checkin', naming
\* the registration's event, issued at most 24 hours ago, naming id.
QrAcceptable(db, t, id, qr) ==
    /\ qr # NoQr
    /\ qr.json
    /\ qr.type = "event-checkin"
    /\ qr.eventId = db.regs[id].event
    /\ qr.timestamp # Undefined
    /\ t - qr.timestamp <= QrMaxAge
    /\ qr.registrationId = id

\* C19: a check-in request with method 'qr-code', by any user on any
\* registration, whose payload is missing or fails one of the checks
\* (well-formed, type, event id, age at most 24 hours, registration id)
\* leaves the registration's checked-in flag and every user's points as
\* they were.
C19_QrCheckInNeedsValidPayload ==
    \A id \in RegIds(DB), actor \in Users :
        \A qr \in QrInputs(id, regs[id].event, now) :
            LET r == PostCheckIn(DB, now, actor, id, "qr-code", qr) IN
            ~QrAcceptable(DB, now, id, qr) =>
                /\ r.msg # "User checked in successfully"
                /\ r.db.regs[id].isCheckedIn = regs[id].isCheckedIn
                /\ r.db.points = points

\* Parsed payloads handed to validateCheckInQR for event e at clock t:
\* either type, either event, issued now, exactly 24 hours ago, one
\* millisecond earlier, or carrying no timestamp.
QrPayloads(e, t) ==
    {[json |-> TRUE, type |-> ty, registrationId |-> 1, eventId |-> ev,
      timestamp |-> ts] :
        ty \in {"event-checkin", "team-join"}, ev \in {e, "e2"},
        ts \in {t, t - QrMaxAge, t - QrMaxAge - 1, Undefined}}

\* C20: validateCheckInQR answers 'Invalid QR code type for check-in' for a
\* wrong type, else 'QR code is for a different event' for another event
\* id, else 'QR code has expired' for an invalid payload, the three reasons
\* being distinct; and a payload of the right type and event is valid
\* exactly when it carries a timestamp with now - timestamp <= 24 hours.
C20_ValidateOrderAndAge ==
    \A e \in EventIds :
        /\ \A data \in QrPayloads(e, now) :
               LET v == ValidateCheckInQR(data, e, now) IN
               IF data.type # "event-checkin"
               THEN ~v.valid
                    /\ v.message = "Invalid QR code type for check-in"
               ELSE IF data.eventId # e
               THEN ~v.valid
                    /\ v.message = "QR code is for a different event"
               ELSE /\ v.valid <=> (/\ data.timestamp # Undefined
                                    /\ now - data.timestamp <= QrMaxAge)
                    /\ ~v.valid => v.message = "QR code has expired"
        /\ Cardinality({ValidateCheckInQR(data, e, now).message :
                           data \in {d \in QrPayloads(e, now) :
                               ~ValidateCheckInQR(d, e, now).valid}}) = 3

\* C21: a create-registration request whose token generation fails is
\* answered as the same request with a working generation is; when that
\* answer is success, the registration is stored with status 'confirmed'
\* and no token, the event's counter is one higher and the user has 10
\* points more.
C21_QrFailureNotPropagated ==
    \A u \in Users, e \in DOMAIN events, teamInfo \in BOOLEAN :
        LET good == PostRegistration(DB, now, u, e, teamInfo, TRUE)
            bad == PostRegistration(DB, now, u, e, teamInfo, FALSE)
            id == Len(regs) + 1
        IN /\ bad.msg = good.msg
           /\ good.msg = "Successfully registered for the event" =>
                /\ Len(bad.db.regs) = id
                /\ bad.db.regs[id].user = u
                /\ bad.db.regs[id].event = e
                /\ bad.db.regs[id].status = "confirmed"
                /\ ~bad.db.regs[id].hasQr
                /\ bad.db.events[e].currentParticipants
                       = events[e].currentParticipants + 1
                /\ bad.db.points = AddPoints(points, u, 10)

\* C21 witness: a stored registration without token, still 'confirmed',
\* whose event counts it and whose user holds the registration points.
C21_Witness ==
    \E id \in RegIds(DB) :
        /\ ~regs[id].hasQr
        /\ regs[id].status = "confirmed"
        /\ events[regs[id].event].currentParticipants >= 1
        /\ points[regs[id].user] >= 10

C23_CapacityCheckedOnStaleCount ==
    \A s \in Slots :
        (inflight[s].kind = "create" /\ inflight[s].pc = "addParticipant")
            => AddParticipant(EventSeen(inflight[s])).ok

\* C23 witness: both requests have ended, the event holds more
\* non-cancelled registrations than maxParticipants, each of them counted
\* as a success (its user was awarded the registration points), while
\* the counter does not exceed maxParticipants.
C23_Witness ==
    \E e \in DOMAIN events :
        /\ \A s \in Slots : inflight[s].pc = "idle"
        /\ Cardinality(LiveRegs(DB, e)) > events[e].maxParticipants
        /\ \A i \in LiveRegs(DB, e) : points[regs[i].user] >= 10
        /\ events[e].currentParticipants <= events[e].maxParticipants

\* C24: whenever no check-in request is in flight, every user's points are
\* 10 for a stored registration plus 20 for a registration that is checked
\* in, however the check-in requests were interleaved: attendance is
\* awarded once per registration.
C24_SingleAttendanceAward ==
    (\A s \in Slots : inflight[s].pc = "idle") =>
        \A u \in Users :
            points[u] =
                10 * Cardinality({i \in RegIds(DB) : regs[i].user = u})
                + 20 * Cardinality({i \in RegIds(DB) :
                                       regs[i].user = u /\ regs[i].isCheckedIn})

\* C25: every registration references a stored event; and a delete request
\* for a stored event with at least one registration (cancelled ones
\* included) keeps the event: from a non-admin it is rejected and changes
\* nothing, from an admin it changes nothing but the event's status, which
\* becomes 'cancelled'; a delete request by a user with access to an event
\* without registrations removes it.
C25_NoHardDeleteWithRegistrations ==
    /\ \A i \in RegIds(DB) : regs[i].event \in DOMAIN events
    /\ \A actor \in Users, e \in DOMAIN events :
           LET r == DeleteEventRoute(DB, actor, e) IN
           IF RegistrationCount(DB, e) > 0
           THEN /\ e \in DOMAIN r.db.events
                /\ IF Role(actor) = "admin"
                   THEN /\ r.msg = "Event cancelled successfully"
                        /\ r.db = [DB EXCEPT !.events[e].status = "cancelled"]
                   ELSE /\ r.msg \notin {"Event cancelled successfully",
                                         "Event deleted successfully"}
                        /\ r.db = DB
           ELSE MayAccessEvent(events[e], actor) =>
                    /\ r.msg = "Event deleted successfully"
                    /\ e \notin DOMAIN r.db.events

\* C25 witness: an event whose only registration is cancelled was kept by
\* an admin's delete request and is now 'cancelled'.
C25_Witness ==
    \E e \in DOMAIN events :
        /\ events[e].status = "cancelled"
        /\ RegistrationCount(DB, e) > 0
        /\ \A i \in RegIds(DB) : regs[i].status = "cancelled"

\* C26: no two team-lead registrations of the same event carry the same
\* teamCode, two leads created at the same clock value included.
C26_TeamCodesDistinct ==
    \A i, j \in RegIds(DB) :
        (/\ i # j
         /\ regs[i].isTeamLead /\ regs[j].isTeamLead
         /\ regs[i].event = regs[j].event)
            => regs[i].teamCode # regs[j].teamCode

\* C27: after any sequence of create-registration, join-team and cancel
\* requests, repeated cancels of one registration included, each event's
\* currentParticipants is the number of its registrations whose status is
\* not 'cancelled'.
C27_CounterMatchesLiveRegistrations ==
    \A e \in DOMAIN events :
        events[e].currentParticipants = Cardinality(LiveRegs(DB, e))

\* C28: a create-registration or join-team request stores a registration
\* only for an event whose status is 'approved' and whose registration
\* deadline has not passed.
C28_RegistrationsOnlyWhileOpen ==
    \A u \in Users, e \in DOMAIN events :
        LET open == /\ events[e].status = "approved"
                    /\ now <= events[e].registrationDeadline
        IN /\ \A teamInfo \in BOOLEAN, qrOk \in BOOLEAN :
                  Len(PostRegistration(DB, now, u, e, teamInfo, qrOk).db.regs)
                      > Len(regs) => open
           /\ \A code \in KnownCodes(DB) :
                  Len(PostJoinTeam(DB, now, u, code, e).db.regs)
                      > Len(regs) => open

\* C29: each entry of the limiter counts its user's attempts since the
\* first attempt of the window.  An attempt made no later than 15 minutes
\* after that first attempt keeps the window, raises the count by one and
\* passes exactly when fewer than 5 attempts came before it, so the 6th and
\* every later one is rejected; an attempt made by a user without entry, or
\* more than 15 minutes after the window's first attempt, passes and starts
\* a window with count 1 at the current time; and no attempt changes the
\* entry of another user.
C29_FiveAttemptsPerWindow ==
    \A u \in Users :
        LET a == userAttempts[u]
            r == SensitiveOperationLimit(userAttempts, u, now)
            inWindow == a # NoAttempts /\ now - a.firstAttempt <= WindowMs
        IN /\ a # NoAttempts => (a.count >= 1 /\ a.firstAttempt <= now)
           /\ \A v \in Users \ {u} : r.store[v] = userAttempts[v]
           /\ IF inWindow
              THEN /\ r.passed <=> a.count < MaxAttempts
                   /\ r.store[u] = [count |-> a.count + 1,
                                    firstAttempt |-> a.firstAttempt]
              ELSE /\ r.passed
                   /\ r.store[u] = [count |-> 1, firstAttempt |-> now]

\* C29 witness: exactly 15 minutes after ann's first attempt, ann has made
\* a sixth attempt and her next one is rejected, while cy, who started
\* later, is at count 1 and passes.
C29_Witness ==
    /\ userAttempts["ann"] = [count |-> MaxAttempts + 1, firstAttempt |-> 0]
    /\ now = WindowMs
    /\ ~SensitiveOperationLimit(userAttempts, "ann", now).passed
    /\ userAttempts["cy"] = [count |-> 1, firstAttempt |-> WindowMs]
    /\ SensitiveOperationLimit(userAttempts, "cy", now).passed

\* C30: every notification returned by findForUser(userId) names the user
\* among recipients.users or has recipients.all set, has status 'sent', and
\* has no expiry or one that has not passed.
C30_OnlyOwnNotifications ==
    \A u \in Users :
        \A i \in FindForUser(notifications, u, now) :
            /\ u \in notifications[i].users \/ notifications[i].all
            /\ notifications[i].status = "sent"
            /\ \/ notifications[i].expiresAt = Undefined
               \/ notifications[i].expiresAt >= now
====
